---- MODULE Spec2Model ----
(***************************************************************************)
(* Model of messor: SQLiteMemory (src/messor/memory/sqlite_memory.py) and  *)
(* LocalThreadedExecutor (src/messor/local_threaded_executor.py).          *)
(*                                                                         *)
(* Python values are represented by their repr() as strings ("None",       *)
(* "{}", "'boom'"); the text held in a table column is the JSON text that  *)
(* json.dumps produces for the value.  A missing row is ABSENT.            *)
(***************************************************************************)
EXTENDS Integers, Sequences, FiniteSets, TLC

\* ------------------------------------------------------------------ bounds
\* largest max_concurrency an executor is constructed with (0 is included)
MaxWorkers == 2
\* number of store operations issued by callers other than run() per behaviour
MaxStoreOps == 3
\* number of run() calls per behaviour
MaxRuns == 2
\* longest batch handed to store_tasks / update_task_statuses / clear_tasks
MaxBatch == 2

\* ------------------------------------------------------------------ domains
IdOrder == <<"t1", "t2", "t3">>
TaskIds == {IdOrder[i] : i \in 1..Len(IdOrder)}
ABSENT == "<no row>"
PyNone == "None"
\* task definitions (python dicts) callers store
Definitions == {"{'n': 1}", "{'n': 2}"}
Statuses == {"pending", "completed", "failed"}
\* values a task invocation may return
TaskReturns == {"{'ok': True}", "{}"}
\* str(e) of the exceptions a task invocation may raise
TaskMessages == {"'boom'", "''"}
StoppedMessage == "'Execution was stopped by an external condition.'"
StoreFaultMessage == "'disk I/O error'"

\* ------------------------------------------------------------------ python
\* bool(v) as used by `if result:` / `if error:`
Truthy(v) == v \notin {PyNone, "{}", "''", "0", "[]", "False"}

\* json.dumps(v): python value -> JSON text
json_dumps(v) ==
    CASE v = "{'ok': True}" -> "{\"ok\": true}"
      [] v = "{'n': 1}" -> "{\"n\": 1}"
      [] v = "{'n': 2}" -> "{\"n\": 2}"
      [] v = "{}" -> "{}"
      [] v = PyNone -> "null"
      [] v = "''" -> "\"\""
      [] v = "'boom'" -> "\"boom\""
      [] v = StoppedMessage -> "\"Execution was stopped by an external condition.\""
      [] v = StoreFaultMessage -> "\"disk I/O error\""

\* json.loads(s): JSON text -> python value
json_loads(s) ==
    CASE s = "{\"ok\": true}" -> "{'ok': True}"
      [] s = "{\"n\": 1}" -> "{'n': 1}"
      [] s = "{\"n\": 2}" -> "{'n': 2}"
      [] s = "{}" -> "{}"
      [] s = "null" -> PyNone
      [] s = "\"\"" -> "''"
      [] s = "\"boom\"" -> "'boom'"
      [] s = "\"Execution was stopped by an external condition.\"" -> StoppedMessage
      [] s = "\"disk I/O error\"" -> StoreFaultMessage

\* ------------------------------------------------------------------ state
VARIABLES
    conn,            \* the database: the four tables of _setup_db
    tasks,           \* self.tasks: the ids of the supplied tasks, in order
    max_concurrency, \* self.max_concurrency
    has_stop,        \* self.stop_all_when is not None
    stopped,         \* self._stopped
    pc,              \* where run() is: idle, submit, harvest, shutdown, returned, raised
    tasks_to_run,    \* run()'s local list
    fut,             \* future_to_task: per submitted index its future's state
    start,           \* the database as run() found it (history)
    last,            \* the last operation called, and whether it raised (history)
    stop_evals,      \* how often this run called stop_all_when (history)
    broke,           \* this run left the as_completed loop by `break` (history)
    in_flight,       \* the futures that were running at that `break` (history)
    ops,             \* store operations issued by other callers so far
    runs             \* run() calls so far

vars == <<conn, tasks, max_concurrency, has_stop, stopped, pc, tasks_to_run, fut,
          start, last, stop_evals, broke, in_flight, ops, runs>>

exec_vars == <<tasks, max_concurrency, has_stop>>

\* ------------------------------------------------------------------ SQLiteMemory
EmptyTable == [id \in TaskIds |-> ABSENT]

\* _setup_db: four empty tables keyed by task_id
EmptyDb == [task_definition |-> EmptyTable, task_status |-> EmptyTable,
            task_result |-> EmptyTable, task_error |-> EmptyTable]

\* mutant: INSERT OR REPLACE where INSERT OR IGNORE is meant
InsertOverwriting(db, tbl, id, val) == [db EXCEPT ![tbl][id] = val]

\* INSERT OR IGNORE INTO tbl (task_id, col) VALUES (id, val)
InsertOrIgnore(db, tbl, id, val) ==
    IF db[tbl][id] = ABSENT THEN [db EXCEPT ![tbl][id] = val] ELSE db

\* INSERT OR REPLACE INTO tbl (task_id, col) VALUES (id, val)
InsertOrReplace(db, tbl, id, val) == [db EXCEPT ![tbl][id] = val]

\* mutant: the UPDATE lacks its WHERE clause and sets every row of task_status
UpdateStatusEveryRow(db, id, status) ==
    [db EXCEPT !.task_status = [x \in TaskIds |-> IF @[x] = ABSENT THEN ABSENT ELSE status]]

\* UPDATE task_status SET status = ? WHERE task_id = ?
UpdateStatus(db, id, status) ==
    IF db.task_status[id] = ABSENT THEN db ELSE [db EXCEPT !.task_status[id] = status]

\* DELETE FROM the four tables WHERE task_id = id
DeleteTask(db, id) ==
    [db EXCEPT !.task_definition[id] = ABSENT, !.task_status[id] = ABSENT,
               !.task_result[id] = ABSENT, !.task_error[id] = ABSENT]

\* One SQL statement applied to the database
Exec(db, s) ==
    CASE s.kind = "insert_or_ignore" -> InsertOrIgnore(db, s.tbl, s.id, s.val)
      [] s.kind = "insert_or_replace" -> InsertOrReplace(db, s.tbl, s.id, s.val)
      [] s.kind = "update_status" -> UpdateStatus(db, s.id, s.val)
      [] s.kind = "delete_task" -> DeleteTask(db, s.id)

Stmt(kind, tbl, id, val) == [kind |-> kind, tbl |-> tbl, id |-> id, val |-> val]

RECURSIVE ExecAll(_, _, _)
\* the first k statements of stmts, in order
ExecAll(db, stmts, k) ==
    IF k = 0 \/ stmts = <<>> THEN db
    ELSE ExecAll(Exec(db, Head(stmts)), Tail(stmts), k - 1)

\* `with self.conn:` around stmts, of which k run before a fault (k = Len: none):
\* commit when the block ends, roll back to the database at entry when it raises
Transaction(db, stmts, k) ==
    IF k >= Len(stmts) THEN ExecAll(db, stmts, Len(stmts)) ELSE db

\* the block raised
Raised(stmts, k) == k < Len(stmts)

\* where a storage fault can strike a transaction: after any number of its
\* statements, or (faulty = FALSE, or the last point) not at all
FaultPoints(stmts, faulty) == IF faulty THEN 0..Len(stmts) ELSE {Len(stmts)}

RECURSIVE Concat(_)
Concat(ss) == IF ss = <<>> THEN <<>> ELSE Head(ss) \o Concat(Tail(ss))

\* store_tasks(tasks): the statements of its two executemany calls
StoreTasksStmts(batch) ==
    [i \in 1..Len(batch) |->
        Stmt("insert_or_ignore", "task_definition", batch[i].id, json_dumps(batch[i].def))]
    \o [i \in 1..Len(batch) |->
        Stmt("insert_or_ignore", "task_status", batch[i].id, "pending")]

store_tasks(db, batch) == Transaction(db, StoreTasksStmts(batch), Len(StoreTasksStmts(batch)))

\* the statements one entry (task_id, _, result, error) adds in the for loop
EntryStmts(e) ==
    (IF Truthy(e.result)
        THEN <<Stmt("insert_or_replace", "task_result", e.id, json_dumps(e.result))>>
        ELSE <<>>)
    \o (IF Truthy(e.error)
        THEN <<Stmt("insert_or_replace", "task_error", e.id, json_dumps(e.error))>>
        ELSE <<>>)

\* update_task_statuses(statuses): the executemany of status updates, then the loop
UpdateStmts(statuses) ==
    [i \in 1..Len(statuses) |->
        Stmt("update_status", "task_status", statuses[i].id, statuses[i].status)]
    \o Concat([i \in 1..Len(statuses) |-> EntryStmts(statuses[i])])

\* update_task_statuses with a storage fault after k statements (k = Len: no fault)
update_task_statuses(db, statuses, k) == Transaction(db, UpdateStmts(statuses), k)

Entry(id, status, result, error) ==
    [id |-> id, status |-> status, result |-> result, error |-> error]

get_task_status(db, id) == db.task_status[id]

get_pending_tasks(db) == {id \in TaskIds : db.task_status[id] = "pending"}

get_completed_tasks(db) == {id \in TaskIds : db.task_status[id] = "completed"}

\* the join of task_status and task_error on task_id, status = 'failed'
get_failed_tasks(db) ==
    {<<id, json_loads(db.task_error[id])>> :
        id \in {x \in TaskIds : db.task_status[x] = "failed" /\ db.task_error[x] # ABSENT}}

get_task_result(db, id) ==
    IF db.task_result[id] # ABSENT THEN json_loads(db.task_result[id]) ELSE PyNone

clear(db) == EmptyDb

clear_tasks(db, ids) ==
    Transaction(db, [i \in 1..Len(ids) |-> Stmt("delete_task", "all", ids[i], ABSENT)], Len(ids))

dump_all(db) ==
    [t \in {"task_definition", "task_status", "task_result", "task_error"} |->
        [id \in {x \in TaskIds : db[t][x] # ABSENT} |->
            IF t = "task_status" THEN db[t][id] ELSE json_loads(db[t][id])]]

\* ------------------------------------------------------------------ inputs
RECURSIVE SeqsUpTo(_, _)
\* the sequences over S of length 1..n
SeqsUpTo(S, n) ==
    IF n = 0 THEN {}
    ELSE LET shorter == SeqsUpTo(S, n - 1)
         IN  {<<x>> : x \in S} \cup shorter \cup {Append(q, x) : q \in shorter, x \in S}

\* task collections handed to the executor: unique ids (the Task contract)
TaskLists == {<<"t1", "t2", "t3">>, <<"t2", "t1">>}

\* the position of an id in the order t1, t2, t3
IdIndex(id) == CHOOSE i \in 1..Len(IdOrder) : IdOrder[i] = id

\* the batches of at most n elements of S with distinct, ascending ids
DistinctBatches(S, n) ==
    {q \in SeqsUpTo(S, n) : \A i \in 1..(Len(q) - 1) : IdIndex(q[i].id) < IdIndex(q[i + 1].id)}

\* results and errors other callers pass to update_task_statuses
GivenResults == {PyNone, "{'ok': True}"}
GivenErrors == {PyNone, "'boom'"}
\* the ids other callers of the store pass when no executor is involved
CallerIds == {"t1", "t2"}

\* the argument lists of the store operations:
\* TaskBatches: the caller of the executor storing tasks, each with its definition
TaskBatches == DistinctBatches([id : TaskIds, def : {"{'n': 1}"}], MaxBatch)
\* StoreBatches: any caller, any definition, an id possibly twice in a batch
StoreBatches == SeqsUpTo([id : CallerIds, def : Definitions], MaxBatch)
UpdateBatches == DistinctBatches([id : CallerIds, status : Statuses,
                                  result : GivenResults, error : GivenErrors], MaxBatch)
\* batches whose effect is compared entry by entry: a result may be omitted (None),
\* a non-empty dict or an empty dict
ComparedResults == {PyNone, "{'ok': True}", "{}"}
ComparedBatches == DistinctBatches([id : CallerIds, status : {"completed", "failed"},
                                    result : ComparedResults, error : GivenErrors], MaxBatch)
ClearBatches == {[i \in 1..Len(q) |-> q[i].id] : q \in DistinctBatches([id : TaskIds], MaxBatch)}

\* ------------------------------------------------------------------ LocalThreadedExecutor
\* a future: st none/queued/running/done/harvested; kind and val are its outcome
\* (ret: task() returned val; raise: task() raised, str(e) = val; stopped:
\* _execute_task raised before calling task()); calls and wrote are what the driver
\* did when it harvested it (update_task_statuses calls issued, status committed)
NoFuture == [st |-> "none", kind |-> "none", val |-> PyNone, calls |-> 0, wrote |-> "none"]

Idle == pc \in {"idle", "returned", "raised"}

\* what the driver's locals are outside run()
ResetRun ==
    /\ pc' = "idle"
    /\ tasks_to_run' = <<>>
    /\ fut' = <<>>
    /\ start' = EmptyDb
    /\ stop_evals' = 0
    /\ broke' = FALSE
    /\ in_flight' = {}

\* an operation, the ids of its argument (store_tasks, clear_tasks), whether it raised
Op(name, ids, raised) == [op |-> name, ids |-> ids, raised |-> raised]

BatchIds(batch) == {batch[i].id : i \in 1..Len(batch)}

\* status_summary(): the three counts it prints
status_summary(db) ==
    [pending |-> Cardinality(get_pending_tasks(db)),
     completed |-> Cardinality(get_completed_tasks(db)),
     failed |-> Cardinality(get_failed_tasks(db))]

\* mutant: every supplied task is selected, whatever its status
SelectEveryTask(ts, pending_task_ids) == ts

\* tasks_to_run = [task for task in self.tasks if task.get_id() in pending_task_ids]
SelectTasks(ts, pending_task_ids) == SelectSeq(ts, LAMBDA id : id \in pending_task_ids)

Queued == {i \in 1..Len(fut) : fut[i].st = "queued"}
Running == {i \in 1..Len(fut) : fut[i].st = "running"}
Done == {i \in 1..Len(fut) : fut[i].st = "done"}
Harvested == {i \in 1..Len(fut) : fut[i].st = "harvested"}
\* the units whose task() was called
Invoked == {i \in 1..Len(fut) : fut[i].st = "running" \/ fut[i].kind \in {"ret", "raise"}}

\* mutant: a pool that starts a thread per item, whatever max_workers is
WorkerAlwaysFree(n) == TRUE

\* ThreadPoolExecutor(max_workers=n): a worker is free to take the next queued item
WorkerFree(n) == Cardinality(Running) < n

\* ------------------------------------------------------------------ actions
\* LocalThreadedExecutor(tasks, memory, max_concurrency, stop_all_when)
NewExecutor ==
    /\ Idle
    /\ stopped
    /\ stopped' = FALSE
    /\ ResetRun
    /\ last' = Op("__init__", {}, FALSE)
    /\ UNCHANGED <<conn, exec_vars, ops, runs>>

\* a call by another caller of the store ends any look at the last run
CallerOp ==
    /\ Idle /\ ops < MaxStoreOps
    /\ ops' = ops + 1
    /\ ResetRun
    /\ UNCHANGED <<exec_vars, stopped, runs>>

StoreTasks(batches) ==
    /\ CallerOp
    /\ \E batch \in batches :
          /\ conn' = store_tasks(conn, batch)
          /\ last' = Op("store_tasks", BatchIds(batch), FALSE)

UpdateTaskStatuses(batches, faulty) ==
    /\ CallerOp
    /\ \E statuses \in batches :
          \E k \in FaultPoints(UpdateStmts(statuses), faulty) :
              /\ conn' = update_task_statuses(conn, statuses, k)
              /\ last' = Op("update_task_statuses", {}, Raised(UpdateStmts(statuses), k))

ClearTasks ==
    /\ CallerOp
    /\ \E ids \in ClearBatches :
          /\ conn' = clear_tasks(conn, ids)
          /\ last' = Op("clear_tasks", {ids[i] : i \in 1..Len(ids)}, FALSE)

Clear ==
    /\ CallerOp
    /\ conn' = clear(conn)
    /\ last' = Op("clear", {}, FALSE)

\* a call of the store by another caller, of which the database it found, its
\* argument and whether it raised are kept for comparison; it is the last call of
\* the behaviour
ComparedCall(name, ids, raised, arg) ==
    /\ Idle /\ ops < MaxStoreOps
    /\ ops' = MaxStoreOps
    /\ start' = conn
    /\ last' = [op |-> name, ids |-> ids, raised |-> raised, arg |-> arg]
    /\ pc' = "idle" /\ tasks_to_run' = <<>> /\ fut' = <<>>
    /\ stop_evals' = 0 /\ broke' = FALSE /\ in_flight' = {}
    /\ UNCHANGED <<exec_vars, stopped, runs>>

\* update_task_statuses(statuses), a storage fault possible at any point inside
UpdateCompared ==
    /\ Idle /\ ops < MaxStoreOps
    /\ \E statuses \in ComparedBatches :
          \E k \in FaultPoints(UpdateStmts(statuses), TRUE) :
              /\ conn' = update_task_statuses(conn, statuses, k)
              /\ ComparedCall("update_task_statuses", BatchIds(statuses),
                              Raised(UpdateStmts(statuses), k), statuses)

\* clear_tasks(ids)
ClearCompared ==
    /\ Idle /\ ops < MaxStoreOps
    /\ \E ids \in ClearBatches :
          /\ conn' = clear_tasks(conn, ids)
          /\ ComparedCall("clear_tasks", {ids[i] : i \in 1..Len(ids)}, FALSE, ids)

\* clear_tasks([id]) followed by store_tasks([(id, def)])
ResetCompared ==
    /\ Idle /\ ops < MaxStoreOps
    /\ \E id \in TaskIds, def \in Definitions :
          /\ conn' = store_tasks(clear_tasks(conn, <<id>>), <<[id |-> id, def |-> def]>>)
          /\ ComparedCall("clear_tasks+store_tasks", {id}, FALSE, def)

\* run(), lines 38-46: select, return early, or open the pool
RunStart ==
    /\ Idle /\ runs < MaxRuns
    /\ runs' = runs + 1
    /\ start' = conn
    /\ last' = Op("run", {}, FALSE)
    /\ stop_evals' = 0
    /\ broke' = FALSE
    /\ in_flight' = {}
    /\ fut' = <<>>
    /\ LET selected == SelectTasks(tasks, get_pending_tasks(conn))
       IN  /\ tasks_to_run' = selected
           /\ pc' = IF selected = <<>> THEN "returned"
                    ELSE IF max_concurrency <= 0 THEN "raised"
                    ELSE "submit"
    /\ UNCHANGED <<conn, exec_vars, stopped, ops>>

\* executor.submit(self._execute_task, task) for the next task of tasks_to_run
Submit ==
    /\ pc = "submit"
    /\ fut' = Append(fut, [NoFuture EXCEPT !.st = "queued"])
    /\ pc' = IF Len(fut) + 1 = Len(tasks_to_run) THEN "harvest" ELSE "submit"
    /\ UNCHANGED <<conn, exec_vars, stopped, tasks_to_run, start, last, stop_evals, broke, in_flight, ops, runs>>

\* mutant: _execute_task without its check of self._stopped
WorkerStartUnchecked(i) ==
    /\ i \in Queued
    /\ \A j \in Queued : i <= j
    /\ WorkerFree(max_concurrency)
    /\ fut' = [fut EXCEPT ![i] = [@ EXCEPT !.st = "running"]]
    /\ UNCHANGED <<conn, exec_vars, stopped, pc, tasks_to_run, start, last, stop_evals, broke, in_flight, ops, runs>>

\* a worker takes the oldest queued item and enters _execute_task
WorkerStart(i) ==
    /\ i \in Queued
    /\ \A j \in Queued : i <= j
    /\ WorkerFree(max_concurrency)
    /\ fut' = [fut EXCEPT ![i] =
                  IF stopped
                  THEN [@ EXCEPT !.st = "done", !.kind = "stopped", !.val = StoppedMessage]
                  ELSE [@ EXCEPT !.st = "running"]]
    /\ UNCHANGED <<conn, exec_vars, stopped, pc, tasks_to_run, start, last, stop_evals, broke, in_flight, ops, runs>>

\* task() returns a value or raises
WorkerFinish(i) ==
    /\ i \in Running
    /\ \/ \E v \in TaskReturns :
             fut' = [fut EXCEPT ![i] = [@ EXCEPT !.st = "done", !.kind = "ret", !.val = v]]
       \/ \E m \in TaskMessages :
             fut' = [fut EXCEPT ![i] = [@ EXCEPT !.st = "done", !.kind = "raise", !.val = m]]
    /\ UNCHANGED <<conn, exec_vars, stopped, pc, tasks_to_run, start, last, stop_evals, broke, in_flight, ops, runs>>

\* the batches run() hands to update_task_statuses (lines 53 and 55)
CompletedBatch(id, result) == <<Entry(id, "completed", result, PyNone)>>
FailedBatch(id, msg) == <<Entry(id, "failed", PyNone, msg)>>

\* what the except clause of line 54 writes for the future f: str(e) of the task's
\* exception, or of the exception update_task_statuses raised at line 53
ExceptMessage(f) == IF f.kind = "ret" THEN StoreFaultMessage ELSE f.val

\* mutant: the except clause swallows the task's exception and writes nothing
RecordOnlySuccess(db, id, f, k1, k2) ==
    IF f.kind = "ret"
    THEN [db |-> update_task_statuses(db, CompletedBatch(id, f.val), k1),
          raised |-> FALSE, calls |-> 1, wrote |-> "completed"]
    ELSE [db |-> db, raised |-> FALSE, calls |-> 0, wrote |-> "none"]

\* mutant: no except clause; a task's exception leaves run() through future.result()
RecordWithoutExcept(db, id, f, k1, k2) ==
    IF f.kind = "ret"
    THEN [db |-> update_task_statuses(db, CompletedBatch(id, f.val), k1),
          raised |-> FALSE, calls |-> 1, wrote |-> "completed"]
    ELSE [db |-> db, raised |-> TRUE, calls |-> 0, wrote |-> "none"]

\* run(), lines 51-55: record the outcome f of the task with this id; k1 and k2 are
\* the fault points of the update_task_statuses calls of line 53 and line 55
RecordOutcome(db, id, f, k1, k2) ==
    IF f.kind = "ret" /\ ~Raised(UpdateStmts(CompletedBatch(id, f.val)), k1)
    THEN [db |-> update_task_statuses(db, CompletedBatch(id, f.val), k1),
          raised |-> FALSE, calls |-> 1, wrote |-> "completed"]
    ELSE LET batch == FailedBatch(id, ExceptMessage(f))
             n == IF f.kind = "ret" THEN 2 ELSE 1
         IN  [db |-> update_task_statuses(db, batch, k2),
              raised |-> Raised(UpdateStmts(batch), k2),
              calls |-> n,
              wrote |-> IF Raised(UpdateStmts(batch), k2) THEN "none" ELSE "failed"]

\* run(), line 58: `if self.stop_all_when and self.stop_all_when()`, the predicate
\* answering b when it is called
StopCondition(stop_given, b) == stop_given /\ b

\* the futures as_completed has yet to yield once i is taken
LeftAfter(i) == Queued \cup Running \cup (Done \ {i})

\* mutant: the `break` is missing
NextPcNoBreak(stop, left) == IF left = {} THEN "shutdown" ELSE "harvest"

\* run(), lines 49 and 58-61: after an iteration the loop goes on unless the stop
\* condition held (break) or as_completed has nothing left to yield
NextPc(stop, left) == IF stop \/ left = {} THEN "shutdown" ELSE "harvest"

\* mutant: shutdown(wait=False)
PoolNotAwaited == TRUE

\* run(), line 46: leaving the `with` block is shutdown(wait=True), which returns
\* once the workers have taken every queued item and finished
PoolDrained == Queued = {} /\ Running = {}

\* run(), lines 49-61: one iteration of the as_completed loop on the finished
\* future i; faulty: the storage may fail during this iteration's writes
Harvest(i, faulty) ==
    /\ pc = "harvest"
    /\ i \in Done
    /\ LET id == tasks_to_run[i]
           first == UpdateStmts(CompletedBatch(id, fut[i].val))
           second == UpdateStmts(FailedBatch(id, ExceptMessage(fut[i])))
       IN  \E k1 \in FaultPoints(first, faulty), k2 \in FaultPoints(second, faulty),
              b \in BOOLEAN :
              LET r == RecordOutcome(conn, id, fut[i], k1, k2)
              IN  /\ conn' = r.db
                  /\ fut' = [fut EXCEPT ![i] = [@ EXCEPT !.st = "harvested",
                                                  !.calls = r.calls, !.wrote = r.wrote]]
                  /\ IF r.raised
                     THEN /\ pc' = "raising"
                          /\ UNCHANGED <<stopped, stop_evals, broke, in_flight>>
                     ELSE /\ stop_evals' = IF has_stop THEN stop_evals + 1 ELSE stop_evals
                          /\ (~has_stop => b = FALSE)
                          /\ stopped' = IF StopCondition(has_stop, b) THEN TRUE ELSE stopped
                          /\ broke' = StopCondition(has_stop, b)
                          /\ in_flight' = IF StopCondition(has_stop, b) THEN Running ELSE {}
                          /\ pc' = NextPc(StopCondition(has_stop, b), LeftAfter(i))
    /\ UNCHANGED <<exec_vars, tasks_to_run, start, last, ops, runs>>

\* the end of the `with ThreadPoolExecutor(...)` block, shutdown(wait=True), once
\* the workers have drained the queue; then status_summary() and return, or the
\* storage fault leaves run()
ExitPool ==
    /\ pc \in {"shutdown", "raising"}
    /\ PoolDrained
    /\ pc' = IF pc = "shutdown" THEN "returned" ELSE "raised"
    /\ UNCHANGED <<conn, exec_vars, stopped, tasks_to_run, fut, start, last, stop_evals, broke, in_flight, ops, runs>>

\* ------------------------------------------------------------------ specification
Init ==
    /\ conn = EmptyDb
    /\ tasks \in TaskLists
    /\ max_concurrency \in 0..MaxWorkers
    /\ has_stop \in BOOLEAN
    /\ stopped = FALSE
    /\ pc = "idle"
    /\ tasks_to_run = <<>>
    /\ fut = <<>>
    /\ start = EmptyDb
    /\ last = Op("connect", {}, FALSE)
    /\ stop_evals = 0
    /\ broke = FALSE
    /\ in_flight = {}
    /\ ops = 0
    /\ runs = 0

\* the executor and the caller that stores and clears its tasks
Next ==
    \/ NewExecutor
    \/ StoreTasks(TaskBatches)
    \/ ClearTasks
    \/ Clear
    \/ RunStart
    \/ Submit
    \/ \E i \in 1..Len(fut) : WorkerStart(i)
    \/ \E i \in 1..Len(fut) : WorkerFinish(i)
    \/ \E i \in 1..Len(fut) : Harvest(i, FALSE)
    \/ ExitPool

Spec == Init /\ [][Next]_vars

\* the store alone, under every operation of its callers, storage faults included
StoreInit == Init /\ tasks = <<"t2", "t1">> /\ max_concurrency = MaxWorkers /\ has_stop

StoreNext ==
    \/ StoreTasks(StoreBatches)
    \/ UpdateTaskStatuses(UpdateBatches, TRUE)
    \/ ClearTasks
    \/ Clear

StoreSpec == StoreInit /\ [][StoreNext]_vars

\* the store under calls whose effect is compared with the database they found
CallNext ==
    \/ StoreTasks(StoreBatches)
    \/ UpdateTaskStatuses(UpdateBatches, FALSE)
    \/ UpdateCompared
    \/ ClearCompared
    \/ ResetCompared

CallSpec == StoreInit /\ [][CallNext]_vars

\* one iteration of the as_completed loop in a run whose stop predicate, if there
\* is one, answers false
HarvestNoStop(i) == Harvest(i, FALSE) /\ ~broke'

\* runs with max_concurrency >= 1, terminating invocations, no storage fault and a
\* stop predicate that never answers true: the pool's threads and the driver are
\* scheduled as long as they have something to do
LiveInit == Init /\ max_concurrency >= 1 /\ tasks = <<"t1", "t2", "t3">>

LiveNext ==
    \/ StoreTasks(TaskBatches)
    \/ RunStart
    \/ Submit
    \/ \E i \in 1..Len(fut) : WorkerStart(i)
    \/ \E i \in 1..Len(fut) : WorkerFinish(i)
    \/ \E i \in 1..Len(fut) : HarvestNoStop(i)
    \/ ExitPool

\* a step of a run in progress, by the driver or by a worker of the pool
RunStep ==
    \/ Submit
    \/ \E i \in 1..Len(fut) : WorkerStart(i)
    \/ \E i \in 1..Len(fut) : WorkerFinish(i)
    \/ \E i \in 1..Len(fut) : HarvestNoStop(i)
    \/ ExitPool

LiveSpec == LiveInit /\ [][LiveNext]_vars /\ WF_vars(RunStep)

\* runs during which update_task_statuses may raise a storage fault
FaultInit == Init /\ tasks = <<"t2", "t1">> /\ max_concurrency >= 1

FaultNext ==
    \/ NewExecutor
    \/ StoreTasks(TaskBatches)
    \/ RunStart
    \/ Submit
    \/ \E i \in 1..Len(fut) : WorkerStart(i)
    \/ \E i \in 1..Len(fut) : WorkerFinish(i)
    \/ \E i \in 1..Len(fut) : Harvest(i, TRUE)
    \/ ExitPool

FaultSpec == FaultInit /\ [][FaultNext]_vars

\* ------------------------------------------------------------------ claims
\* the record of an id: its rows in the four tables
Record(db, id) == <<db.task_definition[id], db.task_status[id],
                    db.task_result[id], db.task_error[id]>>

\* store_tasks inserted the id and nothing cleared it
HasRecord(db, id) == db.task_definition[id] # ABSENT \/ db.task_status[id] # ABSENT

\* this step is a call of the store by a caller other than run()
CallerStep == ops' = ops + 1

\* C1: no id ever has both a result row and an error row.
MutualExclusion ==
    \A id \in TaskIds : ~(conn.task_result[id] # ABSENT /\ conn.task_error[id] # ABSENT)

\* the ids get_failed_tasks reports
FailedIds(db) == {pair[1] : pair \in get_failed_tasks(db)}

\* C2: every id with a record is reported by exactly one of get_pending_tasks,
\* get_completed_tasks and get_failed_tasks.
PartitionProperty ==
    \A id \in TaskIds :
        HasRecord(conn, id) =>
            Cardinality({q \in {"pending", "completed", "failed"} :
                \/ q = "pending" /\ id \in get_pending_tasks(conn)
                \/ q = "completed" /\ id \in get_completed_tasks(conn)
                \/ q = "failed" /\ id \in FailedIds(conn)}) = 1

\* C3: a store_tasks call leaves the definition, status, result and error of every id
\* that had a record as they were, and an id that gets a record gets status pending.
InsertIfAbsent ==
    [][(CallerStep /\ last'.op = "store_tasks") =>
        \A id \in TaskIds :
            /\ HasRecord(conn, id) => Record(conn', id) = Record(conn, id)
            /\ (~HasRecord(conn, id) /\ HasRecord(conn', id)) =>
                  /\ conn'.task_status[id] = "pending"
                  /\ conn'.task_definition[id] # ABSENT
                  /\ id \in last'.ids]_vars

\* C3 witness: store_tasks was just called naming an id whose record an earlier
\* update had completed with a result
InsertIfAbsentWitness ==
    /\ last.op = "store_tasks"
    /\ \E id \in last.ids :
          /\ conn.task_status[id] = "completed"
          /\ conn.task_result[id] # ABSENT

\* the ids of the supplied tasks
Supplied == {tasks[i] : i \in 1..Len(tasks)}

\* C4: a run() that finds every supplied id completed returns at once: no future,
\* no invocation, no call of the stop predicate, the database as it was.
IdempotentResume ==
    (last.op = "run" /\ \A id \in Supplied : start.task_status[id] = "completed") =>
        /\ pc = "returned"
        /\ tasks_to_run = <<>> /\ fut = <<>> /\ Invoked = {}
        /\ stop_evals = 0
        /\ conn = start

\* C4 witness: run() has returned on a store whose supplied ids were all completed
IdempotentResumeWitness ==
    /\ last.op = "run" /\ pc = "returned" /\ has_stop /\ max_concurrency > 0
    /\ \A id \in Supplied : start.task_status[id] = "completed"

\* the future i starts its invocation in this step
StartsInvocation(i) ==
    /\ i \in 1..Len(fut') /\ fut'[i].st = "running"
    /\ (i > Len(fut) \/ fut[i].st # "running")

\* C5: run() invokes only supplied tasks whose id was pending when it started; a
\* supplied id that was not pending then is not invoked and its record is unchanged;
\* and no step of a run starts the invocation of a task whose status is failed.
NoRetry ==
    /\ [](last.op = "run" =>
            /\ \A i \in Invoked :
                  /\ tasks_to_run[i] \in Supplied
                  /\ start.task_status[tasks_to_run[i]] = "pending"
            /\ \A id \in Supplied :
                  start.task_status[id] # "pending" =>
                      /\ \A i \in 1..Len(fut) : tasks_to_run[i] # id
                      /\ Record(conn, id) = Record(start, id))
    /\ [][\A i \in 1..Len(fut') :
            StartsInvocation(i) => conn.task_status[tasks_to_run'[i]] = "pending"]_vars

\* C5 witness: a second run on a store where a supplied task was already failed
\* invokes another task
NoRetryWitness ==
    /\ last.op = "run" /\ runs = 2
    /\ \E id \in Supplied : start.task_status[id] = "failed"
    /\ \E id \in Supplied : start.task_status[id] = "completed"
    /\ Invoked # {}

\* C6: once the stop predicate has answered true, every future harvested so far
\* (as many as the predicate was called) has a terminal status in the store; and a
\* run only ever has futures for the tasks it selected when it started.
StopRespectsHarvested ==
    /\ (last.op = "run" /\ broke) =>
          /\ Cardinality(Harvested) = stop_evals
          /\ \A i \in Harvested :
                conn.task_status[tasks_to_run[i]] \in {"completed", "failed"}
    /\ last.op = "run" =>
          /\ tasks_to_run = SelectSeq(tasks, LAMBDA id : start.task_status[id] = "pending")
          /\ Len(fut) <= Len(tasks_to_run)

\* C6 witness: run() has returned after the stop predicate answered true at the
\* second of three dispatched units
StopRespectsHarvestedWitness ==
    /\ last.op = "run" /\ pc = "returned" /\ broke
    /\ Len(fut) = 3 /\ Cardinality(Harvested) = 2

\* C7: after the `break` the run writes nothing to the store, and every selected
\* unit that was not harvested still has status pending, no result and no error.
AbandonedStayPending ==
    /\ []((last.op = "run" /\ broke) =>
            \A i \in 1..Len(tasks_to_run) :
                i \notin Harvested =>
                    /\ conn.task_status[tasks_to_run[i]] = "pending"
                    /\ conn.task_result[tasks_to_run[i]] = ABSENT
                    /\ conn.task_error[tasks_to_run[i]] = ABSENT)
    /\ [][(broke /\ ops' = ops /\ runs' = runs) => conn' = conn]_vars

\* C7 witness: run() has returned after a stop that left one unit finished but not
\* harvested and one that a worker took only after the stop
AbandonedStayPendingWitness ==
    /\ last.op = "run" /\ pc = "returned" /\ broke
    /\ \E i, j \in 1..Len(fut) :
          /\ fut[i].st = "done" /\ fut[i].kind \in {"ret", "raise"}
          /\ fut[j].st = "done" /\ fut[j].kind = "stopped"

BoundedConcurrency == Cardinality(Running) <= max_concurrency

\* C9 witness: max_concurrency invocations run while a third unit waits in the queue
BoundedConcurrencyWitness ==
    /\ Cardinality(Running) = max_concurrency /\ max_concurrency > 1 /\ Queued # {}

\* C10: a harvested future whose task returned v leaves status completed, v as
\* get_task_result and no error row.
SuccessRecording ==
    \A i \in Harvested :
        fut[i].kind = "ret" =>
            /\ conn.task_status[tasks_to_run[i]] = "completed"
            /\ get_task_result(conn, tasks_to_run[i]) = fut[i].val
            /\ conn.task_error[tasks_to_run[i]] = ABSENT

\* C11: a harvested future whose task raised with message m leaves status failed,
\* m as the stored error, no result, and the pair (id, m) in get_failed_tasks.
FailureRecording ==
    \A i \in Harvested :
        fut[i].kind = "raise" =>
            /\ conn.task_status[tasks_to_run[i]] = "failed"
            /\ conn.task_error[tasks_to_run[i]] = json_dumps(fut[i].val)
            /\ conn.task_result[tasks_to_run[i]] = ABSENT
            /\ <<tasks_to_run[i], fut[i].val>> \in get_failed_tasks(conn)

\* C12: a run that has begun dispatching returns; when it has returned every
\* supplied task that was pending at its start is completed or failed; and each
\* harvested task has the status of its own outcome, whatever the others did.
RunCompletes ==
    /\ (pc = "submit") ~> (pc = "returned")
    /\ []((last.op = "run" /\ pc = "returned") =>
            \A id \in Supplied :
                start.task_status[id] = "pending" =>
                    conn.task_status[id] \in {"completed", "failed"})
    /\ [](pc \notin {"raising", "raised"})
    /\ [](\A i \in Harvested :
            conn.task_status[tasks_to_run[i]] =
                (IF fut[i].kind = "ret" THEN "completed" ELSE "failed"))

\* C12 witness: run() has returned from three tasks of which one raised and a later
\* one returned a value
RunCompletesWitness ==
    /\ last.op = "run" /\ pc = "returned" /\ Len(fut) = 3
    /\ Harvested = {1, 2, 3}
    /\ fut[1].kind = "raise" /\ fut[2].kind = "ret"
    /\ conn.task_status[tasks_to_run[1]] = "failed"
    /\ conn.task_status[tasks_to_run[2]] = "completed"

\* C13: a storage fault while run() records a harvested future leaves run() at once:
\* the driver makes one update_task_statuses call for the future and no second one,
\* a task that returned is never recorded failed, and a call that raised leaves
\* the record pending with run() on its way out.
StoreFaultsPropagate ==
    \A i \in Harvested :
        /\ fut[i].calls = 1
        /\ fut[i].kind = "ret" => fut[i].wrote # "failed"
        /\ fut[i].wrote = "none" =>
              /\ pc \in {"raising", "raised"}
              /\ conn.task_status[tasks_to_run[i]] = "pending"

\* C14: get_task_result(id) is None for every id that has no record or whose status
\* is not completed.
ResultOnlyWhenCompleted ==
    \A id \in TaskIds :
        (~HasRecord(conn, id) \/ conn.task_status[id] # "completed") =>
            get_task_result(conn, id) = PyNone

\* the call just made is one whose argument and prior database were kept
Compared(name) == last.op = name /\ "arg" \in DOMAIN last

\* the entry of a batch of distinct ids that names id
EntryOf(statuses, id) == statuses[CHOOSE i \in 1..Len(statuses) : statuses[i].id = id]

\* C15: an update_task_statuses call that raised leaves the database as it found it;
\* one that did not raise has set, for every entry, the status (of an id with a
\* record), the result if one was given and the error if one was given, has left an
\* omitted result or error as it was, and has left all other ids alone.
AtomicBatchUpdate ==
    Compared("update_task_statuses") =>
        IF last.raised
        THEN conn = start
        ELSE \A id \in TaskIds :
                IF id \in last.ids
                THEN LET e == EntryOf(last.arg, id)
                     IN  /\ conn.task_definition[id] = start.task_definition[id]
                         /\ conn.task_status[id] =
                               (IF start.task_status[id] = ABSENT THEN ABSENT ELSE e.status)
                         /\ conn.task_result[id] =
                               (IF e.result = PyNone THEN start.task_result[id]
                                ELSE json_dumps(e.result))
                         /\ conn.task_error[id] =
                               (IF e.error = PyNone THEN start.task_error[id]
                                ELSE json_dumps(e.error))
                ELSE Record(conn, id) = Record(start, id)

\* C16: clear_tasks([id]) followed by store_tasks([(id, def)]) leaves id pending with
\* definition def, no result and no error, and every other id as it was; and
\* clear_tasks leaves every named id that had no record as it was.
ExplicitReset ==
    /\ Compared("clear_tasks+store_tasks") =>
          \A id \in TaskIds :
              IF id \in last.ids
              THEN Record(conn, id) = <<json_dumps(last.arg), "pending", ABSENT, ABSENT>>
              ELSE Record(conn, id) = Record(start, id)
    /\ Compared("clear_tasks") =>
          \A id \in last.ids : ~HasRecord(start, id) => Record(conn, id) = Record(start, id)

\* C17: run() on an executor whose max_concurrency is not positive raises, with no
\* future created, no task invoked and the database as it was.
ConfigFaultFailsFast ==
    (last.op = "run" /\ max_concurrency <= 0) =>
        /\ pc = "raised"
        /\ fut = <<>> /\ Invoked = {}
        /\ conn = start

\* the driver harvests the future i in this step
Harvests(i) ==
    /\ i \in 1..Len(fut) /\ i \in 1..Len(fut')
    /\ fut[i].st = "done" /\ fut'[i].st = "harvested"

\* a worker takes the queued unit i in this step
TakesUnit(i) ==
    /\ i \in 1..Len(fut) /\ i \in 1..Len(fut')
    /\ fut[i].st = "queued" /\ fut'[i].st # "queued"

\* C18 as claimed: no worker consults any stop state, so no unit that a worker has
\* picked up went without its task being invoked.
NoWorkerConsultsStop ==
    \A i \in 1..Len(fut) : fut[i].st \in {"running", "done", "harvested"} => i \in Invoked

\* C18 as amended: the stop predicate is called only in a step in which the driver
\* harvests a future; a worker that takes a unit while _stopped is set does not
\* invoke its task and raises the stop message, one that takes it while _stopped is
\* unset invokes it.
StopFlagCheckedByWorker ==
    /\ [][stop_evals' > stop_evals => \E i \in 1..Len(fut) : Harvests(i)]_vars
    /\ [][\A i \in 1..Len(fut) :
            TakesUnit(i) =>
                IF stopped
                THEN /\ fut'[i].st = "done" /\ fut'[i].kind = "stopped"
                     /\ fut'[i].val = StoppedMessage /\ i \notin Invoked'
                ELSE fut'[i].st = "running" /\ i \in Invoked']_vars

\* C18 witness: after the driver saw the stop predicate answer true in this run, a
\* worker took a queued unit and did not invoke its task
StopFlagCheckedByWorkerWitness ==
    /\ last.op = "run" /\ broke /\ stopped
    /\ \E i \in 1..Len(fut) : fut[i].kind = "stopped" /\ i \notin Invoked

\* C19: every write of a run is made by the driver harvesting one future, with one
\* update_task_statuses call, on a record that is pending and becomes completed or
\* failed (or stays pending when that one call raises), changing no other status;
\* a run harvests no id twice.
OnlyPendingToTerminal ==
    /\ [][\A i \in 1..Len(fut) :
            Harvests(i) =>
                /\ conn.task_status[tasks_to_run[i]] = "pending"
                /\ \/ conn'.task_status[tasks_to_run[i]] \in {"completed", "failed"}
                   \/ fut'[i].wrote = "none" /\ conn' = conn
                /\ fut'[i].calls = 1
                /\ \A j \in 1..Len(fut) : j # i => fut'[j] = fut[j]
                /\ \A id \in TaskIds :
                      id # tasks_to_run[i] => conn'.task_status[id] = conn.task_status[id]]_vars
    /\ [][(conn' # conn /\ ops' = ops) => \E i \in 1..Len(fut) : Harvests(i)]_vars
    /\ [](\A i, j \in Harvested : i # j => tasks_to_run[i] # tasks_to_run[j])

\* the ids run() selected: supplied and pending when it started
SelectedAtStart == {id \in Supplied : start.task_status[id] = "pending"}

\* C20: during and after a run every definition is as the run found it, the same
\* ids have a record, and the record of every id that is not the id of a supplied
\* task pending at the start is as the run found it.
RunFrame ==
    last.op = "run" =>
        \A id \in TaskIds :
            /\ conn.task_definition[id] = start.task_definition[id]
            /\ HasRecord(conn, id) <=> HasRecord(start, id)
            /\ id \notin SelectedAtStart => Record(conn, id) = Record(start, id)

\* C20 witness: a run stopped early has returned; it found a pending record of an id
\* that is not supplied and a supplied record that was not pending, and recorded an
\* outcome
RunFrameWitness ==
    /\ last.op = "run" /\ pc = "returned" /\ broke /\ Harvested # {}
    /\ \E id \in TaskIds \ Supplied : start.task_status[id] = "pending"
    /\ \E id \in Supplied : start.task_status[id] \in {"completed", "failed"}

====
